---- MODULE Spec2Model ----
(***************************************************************************)
(* EcoGuardAi (src/app.py): the outbreak risk assessment done by the       *)
(* /upload handler, the week-over-week spread trend, and the admin         *)
(* approve / reject toggles, over the three SQLite tables reports, alerts  *)
(* and anomalies.                                                          *)
(*                                                                         *)
(* Conventions of the model                                                *)
(*  - time is counted in whole days; `now` is what datetime('now') and     *)
(*    datetime.now() read (the server is taken to run in UTC, so the two   *)
(*    agree);                                                              *)
(*  - a coordinate is a point of one meridian, given by its distance in    *)
(*    km from a reference point, so the haversine distance of two finite   *)
(*    points is the absolute difference; a float is finite, NaN or +Inf,   *)
(*    and a REAL column may also hold NULL;                                *)
(*  - a confidence is a whole percentage;                                  *)
(*  - the risk score is computed in IEEE-754 binary64, as Python does.     *)
(***************************************************************************)
EXTENDS Integers, Sequences, FiniteSets, TLC

VARIABLES
    reports,     \* table reports, in id order (AUTOINCREMENT: id = index)
    alerts,      \* table alerts, in id order
    anomalies,   \* table anomalies, in id order
    now,         \* the wall clock, in days
    last,        \* what the latest request computed and returned
    probe,       \* SpecScore: the (cluster_count, recent_count) under test
    reqs,        \* SpecConc: the state of each in-flight /upload request
    writer       \* SpecConc: the request holding SQLite's write lock, or 0

vars == <<reports, alerts, anomalies, now, last, probe, reqs, writer>>

----------------------------------------------------------------------------
(* IEEE-754 binary64 arithmetic on the values the score can take.          *)
(* A non-negative double below 2^18 that is a multiple of 2^-54 is held    *)
(* exactly as <<l2, l1, l0>>, three limbs in base 2^24, counting units of  *)
(* 2^-54.  Every exact product and sum below is such a multiple; Round53   *)
(* rounds it to 53 significant bits, ties to even, as the hardware does.   *)

RECURSIVE Pow2(_)
Pow2(n) == IF n = 0 THEN 1 ELSE 2 * Pow2(n - 1)

Limb == Pow2(24)

RECURSIVE BitLen(_)
BitLen(n) == IF n = 0 THEN 0 ELSE 1 + BitLen(n \div 2)

\* carries propagated, so that the two low limbs are below 2^24
Carry(x) ==
    LET c0 == x[3] \div Limb
        m1 == x[2] + c0
    IN  <<x[1] + (m1 \div Limb), m1 % Limb, x[3] % Limb>>

\* round to nearest, ties to even, at 53 significant bits
Round53(x) ==
    IF x[1] = 0 THEN x    \* zero, the only value below 2^48 that occurs
    ELSE LET s    == BitLen(x[1]) - 5     \* bits to drop: (48 + BitLen) - 53
         IN  IF s <= 0 THEN x
             ELSE LET unit == Pow2(s)
                      rem  == x[3] % unit
                      odd  == (x[3] \div unit) % 2 = 1
                      down == <<x[1], x[2], x[3] - rem>>
                      up   == Carry(<<x[1], x[2], x[3] - rem + unit>>)
                  IN  IF 2 * rem > unit \/ (2 * rem = unit /\ odd)
                      THEN up ELSE down

\* float(n) * d, for an int 0 <= n < 128
DblTimes(n, d) == Round53(Carry(<<n * d[1], n * d[2], n * d[3]>>))

DblPlus(x, y) == Round53(Carry(<<x[1] + y[1], x[2] + y[2], x[3] + y[3]>>))

DblLess(x, y) ==
    \/ x[1] < y[1]
    \/ x[1] = y[1] /\ x[2] < y[2]
    \/ x[1] = y[1] /\ x[2] = y[2] /\ x[3] < y[3]

\* the int n as a double: n * 2^54 = (64 n) * 2^48
DblOfInt(n) == <<64 * n, 0, 0>>

\* the literals 0.4 and 0.3: 0x3FD999999999999A and 0x3FD3333333333333
Dbl04 == <<25, 10066329, 10066330>>
Dbl03 == <<19, 3355443, 3355443>>

----------------------------------------------------------------------------
(* The classifier and the species lists.                                   *)

classes == <<"Dung beetle", "Apple snail", "Asian longhorned beetle">>

invasive_species == {"Apple snail", "Asian longhorned beetle"}

\* confidence < 0.70, in percent
ConfidenceFloor == 70

\* mutant: the confidence floor is forgotten
predict_species_nofloor(class_index, confidence) ==
    <<classes[class_index], confidence>>

\* predict_species, after model.predict: class_index is the argmax and
\* confidence its probability
predict_species(class_index, confidence) ==
    IF confidence < ConfidenceFloor
    THEN <<"Unknown Species", confidence>>
    ELSE <<classes[class_index], confidence>>

----------------------------------------------------------------------------
(* Floats as coordinates.                                                  *)

Fin(v) == [k |-> "fin", v |-> v]
NaN    == [k |-> "nan", v |-> 0]
Inf    == [k |-> "inf", v |-> 0]
NULL   == [k |-> "null", v |-> 0]

\* what SQLite keeps of a float bound to a REAL column: NaN becomes NULL
StoreReal(x) == IF x = NaN THEN NULL ELSE x

Abs(n) == IF n < 0 THEN -n ELSE n

Number(km) == [k |-> "num", km |-> km]
Raise(exc) == [k |-> "raise", km |-> 0, exc |-> exc]
NotANumber == [k |-> "nan", km |-> 0]

\* cluster radius of the loop, in km
ClusterRadiusKm == 20

\* radius written to an anomaly row, in metres
AnomalyRadius == 20000

\* calculate_distance on floats: math.cos(inf) and math.sin(inf) raise
\* ValueError, NaN propagates, inf - inf is NaN
calculate_distance(lat1, lon1, lat2, lon2) ==
    IF lat1 = Inf \/ lat2 = Inf THEN Raise("ValueError")
    ELSE IF (lon1 = Inf /\ lon2.k = "fin") \/ (lon2 = Inf /\ lon1.k = "fin")
    THEN Raise("ValueError")
    ELSE IF lat1.k # "fin" \/ lat2.k # "fin" \/ lon1.k # "fin" \/ lon2.k # "fin"
    THEN NotANumber
    ELSE IF lon1.v = lon2.v THEN Number(Abs(lat1.v - lat2.v))
    ELSE NotANumber   \* two finite longitudes always agree in this model

\* one pass of the loop body's distance: float(report[0]), float(report[1])
\* raise TypeError on a NULL column before calculate_distance is entered
RowDistance(latitude, longitude, report) ==
    IF report.latitude = NULL \/ report.longitude = NULL
    THEN Raise("TypeError")
    ELSE calculate_distance(latitude, longitude, report.latitude, report.longitude)

----------------------------------------------------------------------------
(* The trailing-week read and the score.                                   *)

Week == 7
Fortnight == 14

\* mutant: the read is not limited to the trailing week
invasive_reports_ever(rs, t) ==
    LET Invasive(r) == r.prediction \in invasive_species
    IN  SelectSeq(rs, Invasive)

\* SELECT latitude, longitude, created_at FROM reports WHERE prediction IN
\* (...) AND datetime(created_at) >= datetime('now', '-7 days')
invasive_reports(rs, t) ==
    LET InWeek(r) == r.prediction \in invasive_species /\ r.created_at >= t - Week
    IN  SelectSeq(rs, InWeek)

\* the exception the loop raises on the window, if any row raises
LoopRaises(latitude, longitude, window) ==
    \E i \in DOMAIN window : RowDistance(latitude, longitude, window[i]).k = "raise"

\* cluster_count after the loop: the rows with dist <= 20 (False for a NaN)
cluster_count(latitude, longitude, window) ==
    Cardinality({i \in DOMAIN window :
        LET d == RowDistance(latitude, longitude, window[i])
        IN  d.k = "num" /\ d.km <= ClusterRadiusKm})

\* anomaly_flag: set with the anomaly insert
anomaly_flag(cc) == IF cc >= 2 THEN 1 ELSE 0

\* mutant: the recent count weighs 0.4, like the cluster count
risk_score_value_heavy(cc, rc, af) ==
    DblPlus(DblPlus(DblTimes(cc, Dbl04), DblTimes(rc, Dbl04)), DblTimes(af, Dbl03))

\* risk_score_value, in binary64
risk_score_value(cc, rc, af) ==
    DblPlus(DblPlus(DblTimes(cc, Dbl04), DblTimes(rc, Dbl03)), DblTimes(af, Dbl03))

\* mutant: the intervals are closed on the right
risk_level_closed(score) ==
    IF ~DblLess(DblOfInt(3), score) THEN "Low"
    ELSE IF ~DblLess(DblOfInt(6), score) THEN "Moderate"
    ELSE IF ~DblLess(DblOfInt(9), score) THEN "High"
    ELSE "Critical"

\* the if / elif chain on risk_score_value
risk_level(score) ==
    IF DblLess(score, DblOfInt(3)) THEN "Low"
    ELSE IF DblLess(score, DblOfInt(6)) THEN "Moderate"
    ELSE IF DblLess(score, DblOfInt(9)) THEN "High"
    ELSE "Critical"

\* the default risk, before the store is opened
default_risk(result) ==
    IF result = "Unknown Species" THEN "Uncertain - Low Confidence Detection"
    ELSE IF result \in invasive_species THEN "High Risk (Invasive Species Detected)"
    ELSE "Low Risk (Native Species)"

----------------------------------------------------------------------------
(* The rows the /upload handler writes.                                    *)

\* mutant: the anomaly needs a third neighbour
anomaly_rows_late(latitude, longitude, cc) ==
    IF cc > 2
    THEN <<[latitude |-> StoreReal(latitude), longitude |-> StoreReal(longitude),
            radius |-> 20000,
            description |-> "Vegetation Stress Detected via Satellite Correlation"]>>
    ELSE <<>>

\* INSERT INTO anomalies, when cluster_count >= 2
anomaly_rows(latitude, longitude, cc) ==
    IF cc >= 2
    THEN <<[latitude |-> StoreReal(latitude), longitude |-> StoreReal(longitude),
            radius |-> AnomalyRadius,
            description |-> "Vegetation Stress Detected via Satellite Correlation"]>>
    ELSE <<>>

\* mutant: every level above Low raises an alert
alert_rows_eager(latitude, longitude, risk, result, t) ==
    IF risk \in {"Moderate", "High", "Critical"}
    THEN <<[latitude |-> StoreReal(latitude), longitude |-> StoreReal(longitude),
            severity |-> risk, message |-> <<result, "detected at high risk">>,
            created_at |-> t, status |-> "Active", species |-> result]>>
    ELSE <<>>

\* INSERT INTO alerts, when risk in ["High", "Critical"]
alert_rows(latitude, longitude, risk, result, t) ==
    IF risk \in {"High", "Critical"}
    THEN <<[latitude |-> StoreReal(latitude), longitude |-> StoreReal(longitude),
            severity |-> risk, message |-> <<result, "detected at high risk">>,
            created_at |-> t, status |-> "Active", species |-> result]>>
    ELSE <<>>

\* INSERT INTO reports; verified takes its column default 0
report_row(latitude, longitude, result, confidence, risk, t) ==
    [latitude |-> StoreReal(latitude), longitude |-> StoreReal(longitude),
     prediction |-> result, created_at |-> t, verified |-> 0,
     confidence |-> confidence, risk |-> risk]

\* The whole handler on the committed table rs at time t: what it computes
\* and the rows its one transaction holds at conn.commit().  An exception in
\* the loop leaves the handler before any INSERT: nothing is committed.
upload(latitude, longitude, class_index, conf, rs, t) ==
    LET p          == predict_species(class_index, conf)
        result     == p[1]
        confidence == p[2]
        invasive   == result \in invasive_species
        window     == IF invasive THEN invasive_reports(rs, t) ELSE <<>>
        rc         == Len(window)
        raises     == invasive /\ LoopRaises(latitude, longitude, window)
        cc         == IF invasive THEN cluster_count(latitude, longitude, window) ELSE 0
        af         == IF invasive THEN anomaly_flag(cc) ELSE 0
        risk       == IF invasive THEN risk_level(risk_score_value(cc, rc, af))
                      ELSE default_risk(result)
    IN  [op |-> "upload",
         status |-> IF raises THEN "error" ELSE "ok",
         latitude |-> latitude, longitude |-> longitude,
         result |-> result, risk |-> IF raises THEN default_risk(result) ELSE risk,
         cluster_count |-> cc, recent_count |-> rc,
         anomaly_flag |-> IF raises THEN 0 ELSE af,
         queried |-> invasive,
         new_anomalies |-> IF invasive /\ ~raises
                           THEN anomaly_rows(latitude, longitude, cc) ELSE <<>>,
         new_alerts |-> IF invasive /\ ~raises
                        THEN alert_rows(latitude, longitude, risk, result, t) ELSE <<>>,
         new_reports |-> IF raises THEN <<>>
                         ELSE <<report_row(latitude, longitude, result, confidence, risk, t)>>]

\* mutant: the row is rewritten (INSERT OR REPLACE) and risk falls back to its
\* column default
approve_report_replace(rs, report_id) ==
    [i \in DOMAIN rs |->
        IF i = report_id THEN [rs[i] EXCEPT !.verified = 1, !.risk = ""] ELSE rs[i]]

\* UPDATE reports SET verified=1 WHERE id=?
approve_report(rs, report_id) ==
    [i \in DOMAIN rs |-> IF i = report_id THEN [rs[i] EXCEPT !.verified = 1] ELSE rs[i]]

\* UPDATE reports SET verified=-1 WHERE id=?
reject_report(rs, report_id) ==
    [i \in DOMAIN rs |-> IF i = report_id THEN [rs[i] EXCEPT !.verified = -1] ELSE rs[i]]

\* get_spread_trend: the two COUNT(*) queries and the label
get_spread_trend(rs, t) ==
    LET Current(r)  == r.prediction \in invasive_species /\ r.created_at >= t - Week
        Previous(r) == /\ r.prediction \in invasive_species
                       /\ r.created_at >= t - Fortnight
                       /\ r.created_at <= t - Week
        current_week  == Cardinality({i \in DOMAIN rs : Current(rs[i])})
        previous_week == Cardinality({i \in DOMAIN rs : Previous(rs[i])})
    IN  [current_week |-> current_week, previous_week |-> previous_week,
         trend |-> IF current_week > previous_week THEN "Spreading"
                   ELSE IF current_week = previous_week THEN "Stable"
                   ELSE "Declining"]

----------------------------------------------------------------------------
(* State after create_table() on a fresh database.                         *)

NoRequest == [op |-> "none"]

Init ==
    /\ reports = <<>>
    /\ alerts = <<>>
    /\ anomalies = <<>>
    /\ now = 0
    /\ last = NoRequest
    /\ probe = <<>>
    /\ reqs = <<>>
    /\ writer = 0

\* POST /upload, run alone from request to response
Upload(latitude, longitude, class_index, conf) ==
    \E o \in {upload(latitude, longitude, class_index, conf, reports, now)} :
        /\ reports' = reports \o o.new_reports
        /\ alerts' = alerts \o o.new_alerts
        /\ anomalies' = anomalies \o o.new_anomalies
        /\ last' = [op |-> "upload", status |-> o.status,
                    latitude |-> o.latitude, longitude |-> o.longitude,
                    class_index |-> class_index, confidence |-> conf,
                    result |-> o.result, risk |-> o.risk,
                    cluster_count |-> o.cluster_count,
                    recent_count |-> o.recent_count,
                    anomaly_flag |-> o.anomaly_flag, queried |-> o.queried]
        /\ UNCHANGED <<now, probe, reqs, writer>>

\* the wall clock moves on by d days
Tick(d) ==
    /\ now' = now + d
    /\ UNCHANGED <<reports, alerts, anomalies, last, probe, reqs, writer>>

\* GET /admin/approve/<report_id>
Approve(report_id) ==
    /\ reports' = approve_report(reports, report_id)
    /\ last' = [op |-> "approve", report_id |-> report_id]
    /\ UNCHANGED <<alerts, anomalies, now, probe, reqs, writer>>

\* GET /admin/reject/<report_id>
Reject(report_id) ==
    /\ reports' = reject_report(reports, report_id)
    /\ last' = [op |-> "reject", report_id |-> report_id]
    /\ UNCHANGED <<alerts, anomalies, now, probe, reqs, writer>>

\* GET /dashboard: the COUNT(*) queries, then get_spread_trend()
\* (last_report_id, which no claim reads, is left out)
Dashboard ==
    LET Invasive(r)   == r.prediction \in invasive_species
        Native(r)     == r.prediction = "Dung beetle"
        Active(a)     == a.status = "Active"
        Unverified(r) == r.verified = 0
        t             == get_spread_trend(reports, now)
    IN  /\ last' = [op |-> "dashboard",
                    total |-> Len(reports),
                    invasive |-> Cardinality({i \in DOMAIN reports : Invasive(reports[i])}),
                    native |-> Cardinality({i \in DOMAIN reports : Native(reports[i])}),
                    active_alerts |-> Cardinality({i \in DOMAIN alerts : Active(alerts[i])}),
                    unverified_reports |->
                        Cardinality({i \in DOMAIN reports : Unverified(reports[i])}),
                    current_week |-> t.current_week,
                    previous_week |-> t.previous_week,
                    trend |-> t.trend]
        /\ UNCHANGED <<reports, alerts, anomalies, now, probe, reqs, writer>>

\* GET /map: both tables, unfiltered
MapView ==
    /\ last' = [op |-> "map",
                reports |-> [i \in DOMAIN reports |->
                    <<reports[i].latitude, reports[i].longitude, reports[i].prediction>>],
                anomalies |-> [i \in DOMAIN anomalies |->
                    <<anomalies[i].latitude, anomalies[i].longitude,
                      anomalies[i].radius, anomalies[i].description>>]]
    /\ UNCHANGED <<reports, alerts, anomalies, now, probe, reqs, writer>>

\* message.split(" ")[0] of f"{result} detected at high risk"
FirstWord(message) ==
    IF message[1] = "Apple snail" THEN "Apple"
    ELSE IF message[1] = "Asian longhorned beetle" THEN "Asian"
    ELSE IF message[1] = "Dung beetle" THEN "Dung"
    ELSE "Unknown"

species_solutions == {"Apple snail", "Asian longhorned beetle"}

\* GET /alerts: one dict per alert row, here by alert id (the page orders
\* them by created_at DESC, ties in no stated order)
AlertsView ==
    /\ last' = [op |-> "alerts",
                alerts_list |-> [i \in DOMAIN alerts |->
                    LET species_name == IF alerts[i].species # ""
                                        THEN alerts[i].species
                                        ELSE FirstWord(alerts[i].message)
                    IN  [id |-> i,
                         severity |-> alerts[i].severity,
                         status |-> alerts[i].status,
                         is_invasive |-> species_name \in invasive_species,
                         solution |-> IF species_name \in species_solutions
                                      THEN species_name
                                      ELSE "No solution available"]]]
    /\ UNCHANGED <<reports, alerts, anomalies, now, probe, reqs, writer>>

\* GET /admin/review: the unverified reports
AdminReview ==
    /\ last' = [op |-> "review",
                reports |-> {i \in DOMAIN reports : reports[i].verified = 0}]
    /\ UNCHANGED <<reports, alerts, anomalies, now, probe, reqs, writer>>

\* GET /result/<report_id>
ViewResult(report_id) ==
    /\ last' = IF report_id \in DOMAIN reports
               THEN [op |-> "result", found |-> TRUE,
                     prediction |-> reports[report_id].prediction,
                     confidence |-> reports[report_id].confidence,
                     risk |-> reports[report_id].risk]
               ELSE [op |-> "result", found |-> FALSE]
    /\ UNCHANGED <<reports, alerts, anomalies, now, probe, reqs, writer>>

----------------------------------------------------------------------------
(* Spec: sequential ingestion.  Uploads of every classification at three   *)
(* points 0, 20 and 21 km along the meridian, and the clock.               *)

MaxReports == 3
MaxNow == 8

Points == {Fin(0), Fin(20), Fin(21)}
Meridian == Fin(0)

\* (class_index, confidence in percent) as the classifier may answer
Classified == {<<1, 90>>, <<2, 90>>, <<3, 65>>}

TickDays == {7, 8}

SpecUpload ==
    /\ Len(reports) < MaxReports
    /\ \E lat \in Points : \E c \in Classified : Upload(lat, Meridian, c[1], c[2])

SpecTick ==
    \E d \in TickDays : now + d <= MaxNow /\ Tick(d)

Next ==
    \/ SpecUpload
    \/ SpecTick

Spec == Init /\ [][Next]_vars

----------------------------------------------------------------------------
(* What the claims are measured against: the specification's own terms,    *)
(* written without the handler's operators.                                *)

InvasiveSet == {"Apple snail", "Asian longhorned beetle"}

\* a step of POST /upload that persisted its report, the last row of reports'
Persisted == Len(reports') = Len(reports) + 1

NewReport == reports'[Len(reports')]

\* the invasive reports persisted before the step, in the trailing 7 days
RecentBefore ==
    {i \in DOMAIN reports :
        /\ reports[i].prediction \in InvasiveSet
        /\ now - 7 <= reports[i].created_at
        /\ reports[i].created_at <= now}

\* those of them within 20 km of the new report, boundary included
NearBefore ==
    {i \in RecentBefore :
        /\ reports[i].latitude.k = "fin"
        /\ NewReport.latitude.k = "fin"
        /\ reports[i].latitude.v - NewReport.latitude.v <= 20
        /\ NewReport.latitude.v - reports[i].latitude.v <= 20}

\* the score in tenths and its half-open intervals
LevelOfTenths(n) ==
    IF n < 30 THEN "Low"
    ELSE IF n < 60 THEN "Moderate"
    ELSE IF n < 90 THEN "High"
    ELSE "Critical"

LevelOf(cc, rc, af) == LevelOfTenths(4 * cc + 3 * rc + 3 * af)

----------------------------------------------------------------------------
(* Claims checked under Spec.                                              *)

\* C3: an upload creates exactly one Anomaly, centred on the new report with
\* radius 20000, and sets anomalyFlag = 1 if and only if the report is
\* invasive and at least two invasive reports of the trailing week lie within
\* 20 km; otherwise no anomaly and flag 0.  The flag enters the score, which
\* uses the same cluster count.  No other step touches the anomalies.
C3_AnomalyStep ==
    LET fires == NewReport.prediction \in InvasiveSet /\ Cardinality(NearBefore) >= 2
        flag  == IF fires THEN 1 ELSE 0
    IN  /\ Persisted =>
            /\ last'.anomaly_flag = flag
            /\ fires =>
                 anomalies' = Append(anomalies,
                     [latitude |-> NewReport.latitude,
                      longitude |-> NewReport.longitude,
                      radius |-> 20000,
                      description |->
                          "Vegetation Stress Detected via Satellite Correlation"])
            /\ ~fires => anomalies' = anomalies
            /\ NewReport.prediction \in InvasiveSet =>
                 NewReport.risk = LevelOf(Cardinality(NearBefore),
                                          Cardinality(RecentBefore), flag)
        /\ ~Persisted => anomalies' = anomalies

C5_TerminalStep ==
    (/\ last'.op = "upload"
     /\ Len(reports') # Len(reports) \/ last' # last
     /\ last'.confidence < 70 \/ classes[last'.class_index] \notin InvasiveSet)
    =>
    /\ Persisted
    /\ reports' = Append(reports, NewReport)
    /\ alerts' = alerts
    /\ anomalies' = anomalies
    /\ ~last'.queried
    /\ NewReport.latitude = last'.latitude
    /\ NewReport.verified = 0
    /\ last'.confidence < 70 =>
         /\ NewReport.prediction = "Unknown Species"
         /\ NewReport.risk = "Uncertain - Low Confidence Detection"
    /\ last'.confidence >= 70 =>
         /\ NewReport.prediction = classes[last'.class_index]
         /\ NewReport.risk = "Low Risk (Native Species)"

\* C5: every low-confidence or native upload step stores a terminal
\* classification, reads no window and writes only its own report row
C5_TerminalClassification == [][C5_TerminalStep]_vars

\* a low-confidence upload whose top label was invasive, arriving inside an
\* existing cluster of two invasive reports, was stored as Uncertain
C5_Witness ==
    /\ last.op = "upload"
    /\ last.confidence < 70
    /\ classes[last.class_index] \in InvasiveSet
    /\ Len(reports) = 3
    /\ reports[3].risk = "Uncertain - Low Confidence Detection"
    /\ reports[1].prediction \in InvasiveSet
    /\ reports[2].prediction \in InvasiveSet
    /\ reports[1].created_at = reports[3].created_at
    /\ reports[1].latitude = reports[3].latitude
    /\ reports[2].latitude = reports[3].latitude

\* C9: the report under assessment is not counted in its own score: for an
\* invasive upload recentCount is the number of invasive reports persisted
\* before it in the trailing 7 days, clusterCount the number of those within
\* 20 km (boundary included), and clusterCount <= recentCount.
C9_CountStep ==
    (Persisted /\ NewReport.prediction \in InvasiveSet) =>
        /\ last'.queried
        /\ last'.recent_count = Cardinality(RecentBefore)
        /\ last'.cluster_count = Cardinality(NearBefore)
        /\ last'.cluster_count <= last'.recent_count
        /\ NewReport.risk = LevelOf(Cardinality(NearBefore), Cardinality(RecentBefore),
                                    last'.anomaly_flag)

\* C9: at every invasive upload step the counts are those of the reports
\* persisted before it, and clusterCount <= recentCount
C9_SelfExcluded == [][C9_CountStep]_vars

\* the third invasive report found one earlier report exactly 20 km away and
\* one 21 km away: two in the window, one in the cluster
C9_Witness ==
    /\ last.op = "upload" /\ last.status = "ok"
    /\ last.result \in InvasiveSet
    /\ last.recent_count = 2 /\ last.cluster_count = 1
    /\ Len(reports) = 3
    /\ reports[3].latitude = Fin(0)
    /\ {reports[1].latitude, reports[2].latitude} = {Fin(20), Fin(21)}
    /\ reports[1].prediction \in InvasiveSet
    /\ reports[2].prediction \in InvasiveSet

----------------------------------------------------------------------------
(* SpecScore: the scoring lines alone, on every pair of counts the loop    *)
(* can leave behind (cluster_count <= recent_count, both ints >= 0).       *)

MaxCount == 40

InitScore ==
    /\ reports = <<>>
    /\ alerts = <<>>
    /\ anomalies = <<>>
    /\ now = 0
    /\ last = NoRequest
    /\ probe \in {<<cc, rc>> : cc \in 0 .. MaxCount, rc \in 0 .. MaxCount}
    /\ probe[1] <= probe[2]
    /\ reqs = <<>>
    /\ writer = 0

\* lines 196-214 on the probe: the flag, the score, the level
Score ==
    /\ last = NoRequest
    /\ LET cc == probe[1]
           rc == probe[2]
           af == anomaly_flag(cc)
       IN  last' = [op |-> "score", cluster_count |-> cc, recent_count |-> rc,
                    anomaly_flag |-> af,
                    risk |-> risk_level(risk_score_value(cc, rc, af))]
    /\ UNCHANGED <<reports, alerts, anomalies, now, probe, reqs, writer>>

NextScore == Score

SpecScore == InitScore /\ [][NextScore]_vars

\* C4: for an invasive report the level is that of clusterCount * 0.4 +
\* recentCount * 0.3 + anomalyFlag * 0.3 through the half-open intervals
\* [0,3) Low, [3,6) Moderate, [6,9) High, [9,inf) Critical, i.e. of
\* 4*clusterCount + 3*recentCount + 3*anomalyFlag against 30, 60 and 90;
\* (2,5,1) is Low, (5,10,1) Moderate, (10,15,1) High, (20,20,1) Critical.
C4_RiskLevel ==
    last.op = "score" =>
        /\ last.anomaly_flag \in {0, 1}
        /\ last.risk = LevelOf(last.cluster_count, last.recent_count, last.anomaly_flag)
        /\ probe = <<2, 5>> => last.anomaly_flag = 1 /\ last.risk = "Low"
        /\ probe = <<5, 10>> => last.anomaly_flag = 1 /\ last.risk = "Moderate"
        /\ probe = <<10, 15>> => last.anomaly_flag = 1 /\ last.risk = "High"
        /\ probe = <<20, 20>> => last.anomaly_flag = 1 /\ last.risk = "Critical"

\* the score of (10, 15, 1), 8.8, was mapped to High
C4_Witness ==
    /\ last.op = "score"
    /\ probe = <<10, 15>>
    /\ last.anomaly_flag = 1
    /\ last.risk = "High"

----------------------------------------------------------------------------
(* SpecTrend: uploads at one point, the clock, and the dashboard with its  *)
(* spread trend.                                                           *)

MaxTrendReports == 2
MaxTrendNow == 15

TrendClassified == {<<1, 90>>, <<2, 90>>}
TrendTickDays == {1, 7}

TrendUpload ==
    /\ Len(reports) < MaxTrendReports
    /\ \E c \in TrendClassified : Upload(Fin(0), Meridian, c[1], c[2])

TrendTick ==
    \E d \in TrendTickDays : now + d <= MaxTrendNow /\ Tick(d)

NextTrend ==
    \/ TrendUpload
    \/ TrendTick
    \/ Dashboard

SpecTrend == Init /\ [][NextTrend]_vars

\* a step of GET /dashboard: the response changes, the store and clock do not
DashboardStep ==
    /\ last'.op = "dashboard"
    /\ reports' = reports
    /\ now' = now

\* C6: spreadTrend counts an invasive report in currentWeekCount exactly when
\* its timestamp is in [now-7d, now] and in previousWeekCount exactly when it
\* is in [now-14d, now-7d); no report is counted in both.
C6_TrendStep ==
    DashboardStep =>
        /\ last'.current_week =
             Cardinality({i \in DOMAIN reports :
                 /\ reports[i].prediction \in InvasiveSet
                 /\ now - 7 <= reports[i].created_at
                 /\ reports[i].created_at <= now})
        /\ last'.previous_week =
             Cardinality({i \in DOMAIN reports :
                 /\ reports[i].prediction \in InvasiveSet
                 /\ now - 14 <= reports[i].created_at
                 /\ reports[i].created_at < now - 7})

\* C6: every dashboard step reports the counts of the closed current window
\* and of the half-open previous window, which share no report
C6_DisjointWindows == [][C6_TrendStep]_vars

----------------------------------------------------------------------------
(* SpecInput: uploads whose form fields parse to a finite float, to NaN or *)
(* to Infinity (float() accepts "nan" and "inf").                          *)

MaxInputReports == 2

Floats == {Fin(0), NaN, Inf}
InputClassified == {<<1, 90>>, <<2, 90>>}

InputUpload ==
    /\ Len(reports) < MaxInputReports
    /\ \E lat \in Floats : \E lon \in Floats : \E c \in InputClassified :
           Upload(lat, lon, c[1], c[2])

NextInput == InputUpload

SpecInput == Init /\ [][NextInput]_vars

\* C8: an upload whose latitude or longitude is NaN or infinite is rejected
\* before any store write: reports, anomalies and alerts stay as they were.
C8_InputStep ==
    (/\ last'.op = "upload"
     /\ last'.latitude.k # "fin" \/ last'.longitude.k # "fin")
    => /\ reports' = reports
       /\ alerts' = alerts
       /\ anomalies' = anomalies
       /\ last'.status = "error"

\* C8: every upload step with a non-finite latitude or longitude is rejected
\* and leaves reports, anomalies and alerts unchanged
C8_NonFiniteRejected == [][C8_InputStep]_vars

----------------------------------------------------------------------------
(* SpecAdmin: invasive uploads into one growing cluster, the admin's       *)
(* approve and reject on any id, and every read-only page.                 *)

MaxAdminReports == 5

AdminUpload ==
    /\ Len(reports) < MaxAdminReports
    /\ Upload(Fin(0), Meridian, 2, 90)

AdminApprove == \E id \in 1 .. MaxAdminReports : Approve(id)

AdminReject == \E id \in 1 .. MaxAdminReports : Reject(id)

AdminResult == \E id \in 1 .. MaxAdminReports : ViewResult(id)

NextAdmin ==
    \/ AdminUpload
    \/ AdminApprove
    \/ AdminReject
    \/ AdminResult
    \/ Dashboard
    \/ MapView
    \/ AlertsView
    \/ AdminReview

SpecAdmin == Init /\ [][NextAdmin]_vars

\* C7: a report's riskLevel is assigned when the report is inserted and never
\* changes: no upload, approve, reject or read-only page alters the risk of a
\* report that is already persisted (nor removes the report).
C7_RiskStep ==
    \A i \in DOMAIN reports :
        /\ i \in DOMAIN reports'
        /\ reports'[i].risk = reports[i].risk

\* C7: no step changes the riskLevel of a report that is already persisted
C7_RiskImmutable == [][C7_RiskStep]_vars

\* the first report of the cluster is still Low after the cluster grew until
\* a newcomer was scored Moderate, and after an admin approved it
C7_Witness ==
    /\ Len(reports) >= 5
    /\ reports[1].risk = "Low"
    /\ reports[5].risk = "Moderate"
    /\ reports[1].latitude = reports[5].latitude
    /\ reports[1].created_at = reports[5].created_at
    /\ reports[1].verified = 1
    /\ last.op = "dashboard"

----------------------------------------------------------------------------
(* SpecCluster: invasive uploads at two points 21 km apart, so that every  *)
(* mix of cluster and recent counts up to the bound is scored.             *)

MaxClusterReports == 14

TwoPoints == {Fin(0), Fin(21)}

ClusterUpload ==
    /\ Len(reports) < MaxClusterReports
    /\ \E lat \in TwoPoints : Upload(lat, Meridian, 2, 90)

NextCluster == ClusterUpload

SpecCluster == Init /\ [][NextCluster]_vars

AlertLevels == {"High", "Critical"}

\* C1: an upload creates exactly one Alert if and only if the riskLevel it
\* assigned is High or Critical; alerts are never merged, so the alert rows
\* are as many as the persisted reports whose riskLevel is High or Critical.
C1_AlertStep ==
    /\ (Persisted /\ NewReport.risk \in AlertLevels) =>
         /\ Len(alerts') = Len(alerts) + 1
         /\ SubSeq(alerts', 1, Len(alerts)) = alerts
         /\ alerts'[Len(alerts')].severity = NewReport.risk
         /\ alerts'[Len(alerts')].latitude = NewReport.latitude
         /\ alerts'[Len(alerts')].longitude = NewReport.longitude
         /\ alerts'[Len(alerts')].species = NewReport.prediction
         /\ alerts'[Len(alerts')].status = "Active"
    /\ (Persisted /\ NewReport.risk \notin AlertLevels) => alerts' = alerts
    /\ ~Persisted => alerts' = alerts

C1_AlertCount ==
    Len(alerts) = Cardinality({i \in DOMAIN reports : reports[i].risk \in AlertLevels})

\* C1: every upload step creates one alert iff its riskLevel is High or
\* Critical, and in every state the alerts are as many as such reports
C1_OneAlertPerQualifying == [][C1_AlertStep]_vars /\ []C1_AlertCount

\* two alerts stand for the same cluster, one High and one Critical, beside
\* reports that raised none
C1_Witness ==
    /\ Len(alerts) >= 2
    /\ alerts[1].severity = "High"
    /\ alerts[Len(alerts)].severity = "Critical"
    /\ alerts[1].latitude = alerts[Len(alerts)].latitude
    /\ Len(alerts) < Len(reports)
    /\ last.op = "upload" /\ last.risk = "Critical"

----------------------------------------------------------------------------
(* SpecOutbreak: invasive uploads at one point while the clock moves, so   *)
(* that earlier reports leave the trailing week.                           *)

MaxOutbreakReports == 15
MaxOutbreakNow == 16

OutbreakUpload ==
    /\ Len(reports) < MaxOutbreakReports
    /\ Upload(Fin(0), Meridian, 2, 90)

OutbreakTick ==
    \E d \in TickDays : now + d <= MaxOutbreakNow /\ Tick(d)

NextOutbreak ==
    \/ OutbreakUpload
    \/ OutbreakTick

SpecOutbreak == Init /\ [][NextOutbreak]_vars

\* the invasive reports persisted before report i within the 7 days up to
\* its creation
WindowOf(i) ==
    {j \in 1 .. (i - 1) :
        /\ reports[j].prediction \in InvasiveSet
        /\ reports[i].created_at - 7 <= reports[j].created_at
        /\ reports[j].created_at <= reports[i].created_at}

\* C10: an upload creates an Alert (its level is High or Critical) only if at
\* least 9 invasive reports were already persisted in its trailing week, and
\* is Critical only if at least 13 were; with fewer than 9 the report is Low
\* or Moderate, however tight the cluster.
C10_AlertFloor ==
    /\ \A i \in DOMAIN reports :
          reports[i].prediction \in InvasiveSet =>
              /\ reports[i].risk \in AlertLevels => Cardinality(WindowOf(i)) >= 9
              /\ reports[i].risk = "Critical" => Cardinality(WindowOf(i)) >= 13
              /\ Cardinality(WindowOf(i)) < 9 => reports[i].risk \in {"Low", "Moderate"}
    /\ \A a \in DOMAIN alerts :
          \E i \in DOMAIN reports :
              /\ reports[i].created_at = alerts[a].created_at
              /\ reports[i].latitude = alerts[a].latitude
              /\ reports[i].risk = alerts[a].severity
              /\ Cardinality(WindowOf(i)) >= 9

\* an alert was raised on exactly 9 reports of the trailing week, older
\* reports having left it; and a Critical one on exactly 13
C10_Witness ==
    /\ Len(alerts) >= 1
    /\ \E i \in DOMAIN reports :
          /\ reports[i].risk = "High"
          /\ Cardinality(WindowOf(i)) = 9
          /\ i > 10
    /\ \E i \in DOMAIN reports :
          /\ reports[i].risk = "Critical"
          /\ Cardinality(WindowOf(i)) = 13

----------------------------------------------------------------------------
(* SpecConc: /upload requests served concurrently, one step per statement  *)
(* group of the handler.  Each request has its own connection; its INSERTs *)
(* stay in the connection's open transaction until conn.commit(), and a    *)
(* request that fails before the commit returns leaves its connection      *)
(* uncommitted, which SQLite rolls back.  The first INSERT takes the       *)
(* database's write lock.  The store starts as SeedSize sequential uploads *)
(* of one cluster left it, so that a further invasive upload writes an     *)
(* anomaly, an alert and its report.                                       *)

SeedSize == 9
MaxConcReports == 2

ReqIds == {1, 2}

\* mutant: the connection is opened with isolation_level=None
autocommit_on == TRUE

\* sqlite3.connect("database.db"): implicit transactions, no autocommit
autocommit == FALSE

RECURSIVE Seeded(_)
Seeded(n) ==
    IF n = 0 THEN [reports |-> <<>>, alerts |-> <<>>, anomalies |-> <<>>]
    ELSE LET s == Seeded(n - 1)
             o == upload(Fin(0), Meridian, 2, 90, s.reports, 0)
         IN  [reports |-> s.reports \o o.new_reports,
              alerts |-> s.alerts \o o.new_alerts,
              anomalies |-> s.anomalies \o o.new_anomalies]

Idle == [pc |-> "idle"]

NoRows == [anomalies |-> <<>>, alerts |-> <<>>, reports |-> <<>>]

InitConc ==
    /\ \E s \in {Seeded(SeedSize)} :
          /\ reports = s.reports
          /\ alerts = s.alerts
          /\ anomalies = s.anomalies
    /\ now = 0
    /\ last = NoRequest
    /\ probe = <<>>
    /\ reqs = [r \in ReqIds |-> Idle]
    /\ writer = 0

\* the form and classifier answers of the concurrent requests
ConcInputs == {<<Fin(1), 2, 90>>, <<Fin(30), 2, 90>>, <<Fin(0), 1, 90>>}

InFlight == Cardinality({r \in ReqIds : reqs[r].pc # "idle"})

\* lines 155-179: the form, predict_species, the default risk, connect
Begin(r) ==
    /\ reqs[r].pc = "idle"
    /\ Len(reports) + InFlight < SeedSize + MaxConcReports
    /\ \E in \in ConcInputs :
          LET p == predict_species(in[2], in[3])
          IN  reqs' = [reqs EXCEPT ![r] =
                  [pc |-> "connected", latitude |-> in[1], longitude |-> Meridian,
                   result |-> p[1], confidence |-> p[2],
                   risk |-> default_risk(p[1]),
                   window |-> <<>>, cluster_count |-> 0, recent_count |-> 0,
                   anomaly_flag |-> 0, tx |-> NoRows]]
    /\ UNCHANGED <<reports, alerts, anomalies, now, last, probe, writer>>

\* lines 181-189: the SELECT sees the committed rows
Select(r) ==
    /\ reqs[r].pc = "connected"
    /\ reqs[r].result \in invasive_species
    /\ \E w \in {invasive_reports(reports, now)} :
          reqs' = [reqs EXCEPT ![r].pc = "selected", ![r].window = w,
                               ![r].recent_count = Len(w)]
    /\ UNCHANGED <<reports, alerts, anomalies, now, last, probe, writer>>

\* what a request that raised leaves behind: no commit, the lock released
Abort(r, stage) ==
    /\ reqs' = [reqs EXCEPT ![r] = Idle]
    /\ writer' = IF writer = r THEN 0 ELSE writer
    /\ last' = [op |-> "upload", status |-> "error", stage |-> stage,
                pending |-> <<Len(reqs[r].tx.anomalies), Len(reqs[r].tx.alerts),
                              Len(reqs[r].tx.reports)>>]

\* lines 191-194: the distance loop
Loop(r) ==
    /\ reqs[r].pc = "selected"
    /\ IF LoopRaises(reqs[r].latitude, reqs[r].longitude, reqs[r].window)
       THEN Abort(r, "selected") /\ UNCHANGED <<reports, alerts, anomalies>>
       ELSE /\ reqs' = [reqs EXCEPT ![r].pc = "looped",
                   ![r].cluster_count =
                       cluster_count(reqs[r].latitude, reqs[r].longitude, reqs[r].window)]
            /\ UNCHANGED <<reports, alerts, anomalies, last, writer>>
    /\ UNCHANGED <<now, probe>>

\* lines 196-202: the anomaly INSERT and the flag
InsertAnomaly(r) ==
    /\ reqs[r].pc = "looped"
    /\ \E rows \in {anomaly_rows(reqs[r].latitude, reqs[r].longitude,
                                 reqs[r].cluster_count)} :
          /\ rows # <<>> => writer \in {0, r}
          /\ writer' = IF rows # <<>> /\ ~autocommit THEN r ELSE writer
          /\ anomalies' = IF autocommit THEN anomalies \o rows ELSE anomalies
          /\ reqs' = [reqs EXCEPT ![r].pc = "flagged",
                        ![r].anomaly_flag = anomaly_flag(reqs[r].cluster_count),
                        ![r].tx.anomalies = IF autocommit THEN <<>> ELSE rows]
    /\ UNCHANGED <<reports, alerts, now, last, probe>>

\* lines 204-225: the score, the level and the alert INSERT
InsertAlert(r) ==
    /\ reqs[r].pc = "flagged"
    /\ \E risk \in {risk_level(risk_score_value(reqs[r].cluster_count,
                        reqs[r].recent_count, reqs[r].anomaly_flag))} :
       \E rows \in {alert_rows(reqs[r].latitude, reqs[r].longitude, risk,
                               reqs[r].result, now)} :
          /\ rows # <<>> => writer \in {0, r}
          /\ writer' = IF rows # <<>> /\ ~autocommit THEN r ELSE writer
          /\ alerts' = IF autocommit THEN alerts \o rows ELSE alerts
          /\ reqs' = [reqs EXCEPT ![r].pc = "alerted", ![r].risk = risk,
                        ![r].tx.alerts = IF autocommit THEN <<>> ELSE rows]
    /\ UNCHANGED <<reports, anomalies, now, last, probe>>

\* lines 227-232: the report INSERT
InsertReport(r) ==
    /\ \/ reqs[r].pc = "alerted"
       \/ reqs[r].pc = "connected" /\ reqs[r].result \notin invasive_species
    /\ writer \in {0, r}
    /\ \E row \in {report_row(reqs[r].latitude, reqs[r].longitude, reqs[r].result,
                              reqs[r].confidence, reqs[r].risk, now)} :
          /\ writer' = IF autocommit THEN writer ELSE r
          /\ reports' = IF autocommit THEN Append(reports, row) ELSE reports
          /\ reqs' = [reqs EXCEPT ![r].pc = "inserted",
                        ![r].tx.reports = IF autocommit THEN <<>> ELSE <<row>>]
    /\ UNCHANGED <<alerts, anomalies, now, last, probe>>

\* lines 234-244: conn.commit() publishes the transaction at once
Commit(r) ==
    /\ reqs[r].pc = "inserted"
    /\ reports' = reports \o reqs[r].tx.reports
    /\ alerts' = alerts \o reqs[r].tx.alerts
    /\ anomalies' = anomalies \o reqs[r].tx.anomalies
    /\ writer' = IF writer = r THEN 0 ELSE writer
    /\ last' = [op |-> "upload", status |-> "ok",
                latitude |-> reqs[r].latitude, longitude |-> reqs[r].longitude,
                result |-> reqs[r].result, risk |-> reqs[r].risk,
                cluster_count |-> reqs[r].cluster_count,
                recent_count |-> reqs[r].recent_count,
                anomaly_flag |-> reqs[r].anomaly_flag]
    /\ reqs' = [reqs EXCEPT ![r] = Idle]
    /\ UNCHANGED <<now, probe>>

\* a store error, a lock timeout or a crash at any statement of an open
\* request: the exception leaves the handler before conn.commit() returns
Fail(r) ==
    /\ reqs[r].pc # "idle"
    /\ Abort(r, reqs[r].pc)
    /\ UNCHANGED <<reports, alerts, anomalies, now, probe>>

NextConc ==
    \E r \in ReqIds :
        \/ Begin(r)
        \/ Select(r)
        \/ Loop(r)
        \/ InsertAnomaly(r)
        \/ InsertAlert(r)
        \/ InsertReport(r)
        \/ Commit(r)
        \/ Fail(r)

SpecConc == InitConc /\ [][NextConc]_vars

----------------------------------------------------------------------------
\* a step in which an open request ended without its commit
FailStep ==
    /\ last'.op = "upload"
    /\ last'.status = "error"
    /\ \E r \in ReqIds : reqs[r].pc # "idle" /\ reqs'[r].pc = "idle"

\* C2: the writes of one assessment are all-or-nothing.  Whatever step the
\* committed tables change in, they gain exactly one report row together with
\* at most one anomaly and at most one alert of that same report; a request
\* that fails, during the trailing-week read or at any later step up to the
\* commit, changes nothing; so every anomaly or alert row that is visible
\* has its report row visible beside it.
C2_TxStep ==
    /\ (reports' # reports \/ alerts' # alerts \/ anomalies' # anomalies) =>
         /\ Persisted
         /\ SubSeq(reports', 1, Len(reports)) = reports
         /\ \/ alerts' = alerts
            \/ /\ Len(alerts') = Len(alerts) + 1
               /\ SubSeq(alerts', 1, Len(alerts)) = alerts
               /\ alerts'[Len(alerts')].latitude = NewReport.latitude
               /\ alerts'[Len(alerts')].severity = NewReport.risk
               /\ alerts'[Len(alerts')].species = NewReport.prediction
         /\ \/ anomalies' = anomalies
            \/ /\ Len(anomalies') = Len(anomalies) + 1
               /\ SubSeq(anomalies', 1, Len(anomalies)) = anomalies
               /\ anomalies'[Len(anomalies')].latitude = NewReport.latitude
               /\ NewReport.prediction \in InvasiveSet
    /\ FailStep => /\ reports' = reports
                   /\ alerts' = alerts
                   /\ anomalies' = anomalies

C2_RowsHaveReport ==
    /\ \A a \in DOMAIN anomalies :
          \E i \in DOMAIN reports :
              /\ reports[i].latitude = anomalies[a].latitude
              /\ reports[i].longitude = anomalies[a].longitude
              /\ reports[i].prediction \in InvasiveSet
    /\ \A a \in DOMAIN alerts :
          \E i \in DOMAIN reports :
              /\ reports[i].latitude = alerts[a].latitude
              /\ reports[i].risk = alerts[a].severity
              /\ reports[i].prediction = alerts[a].species
    /\ Len(alerts) <= Len(reports)
    /\ Len(anomalies) <= Len(reports)

\* C2: every step changes the committed tables all-or-nothing, and in every
\* state each visible anomaly or alert row has its report row
C2_AllOrNothing == [][C2_TxStep]_vars /\ []C2_RowsHaveReport

\* a request that had inserted its anomaly, its alert and its report failed
\* at the commit while the other request had already read the window: the
\* tables are those the seed left
C2_Witness ==
    /\ last.op = "upload"
    /\ last.status = "error"
    /\ last.stage = "inserted"
    /\ last.pending = <<1, 1, 1>>
    /\ reports = Seeded(SeedSize).reports
    /\ alerts = Seeded(SeedSize).alerts
    /\ anomalies = Seeded(SeedSize).anomalies
    /\ \E r \in ReqIds : reqs[r].pc = "selected"

----------------------------------------------------------------------------
====
